---- MODULE Spec2Model ----
(***************************************************************************)
(* A model of the Go rules engine of EnjoyGo (src/EnjoyGo.py, class        *)
(* GoGame): the board, the ko history window, the group cache, make_move,  *)
(* is_valid_move, check_capture, is_ko_violation, get_valid_moves and      *)
(* calculate_territory.                                                    *)
(*                                                                         *)
(* The methods of GoGame are operators over a record g holding the fields  *)
(* of the object; each returns the fields as the method leaves them and    *)
(* the value it returns.  The actions apply them to the variables.         *)
(***************************************************************************)
EXTENDS Integers, Sequences, FiniteSets, TLC

\* ------------------------------------------------------------------ values

\* class Stone
EMPTY == 0
BLACK == 1
WHITE == 2

\* class GameState
ONGOING == 0
FINISHED == 1

\* the length of the ko history window (make_move, "Keep only last 8 board states")
HistoryCap == 8

\* ------------------------------------------------------------------ bounds

\* the longest game record the caller who tries every argument builds
MaxMoves == 3

\* The window is modelled with a board of GuiSize rows (GoGame() has 19),
\* games of up to MaxGuiMoves moves and up to MaxTimers scheduled callbacks.
GuiSize == 2
MaxGuiMoves == 3
MaxTimers == 2

\* ------------------------------------------------------------------ moves

\* The argument of make_move and is_valid_move: the string "pass", a tuple
\* (kind "tuple", pt its components), or any other value (kind "other").
Pass == [kind |-> "pass", pt |-> <<>>]
Pt(x, y) == [kind |-> "tuple", pt |-> <<x, y>>]
NoMove == [kind |-> "none", pt |-> <<>>]

\* the points (x, y) of a board of size n, as pairs
Points(n) == (0 .. n - 1) \X (0 .. n - 1)

\* the neighbour offsets, in the order every loop of the source uses
Dirs == << <<1, 0>>, <<-1, 0>>, <<0, 1>>, <<0, -1>> >>

InRange(n, p) == p[1] >= 0 /\ p[1] < n /\ p[2] >= 0 /\ p[2] < n

\* the in-range neighbours of p
Adjacent(n, p) ==
  {q \in {<<p[1] + Dirs[i][1], p[2] + Dirs[i][2]>> : i \in 1 .. 4} : InRange(n, q)}

\* the in-range neighbours of the points of S
AdjacentTo(n, S) == UNION {Adjacent(n, s) : s \in S}

\* the opposing colour, 3 - self.current_player.value
Opponent(c) == 3 - c

EmptyBoard(n) == [p \in Points(n) |-> EMPTY]

\* ------------------------------------------------------------------ GoGame

\* GoGame.__init__
NewGame(n) ==
  [size |-> n,
   board |-> EmptyBoard(n),
   current_player |-> BLACK,
   previous_boards |-> <<>>,
   move_history |-> <<>>,
   consecutive_passes |-> 0,
   state |-> ONGOING,
   captured_stones |-> [c \in {BLACK, WHITE} |-> 0],
   group_cache |-> {},
   last_move |-> NoMove]

\* clear_caches: the group cache is emptied (the territory cache, which no
\* method writes, holds nothing)
clear_caches(g) == [g |-> [g EXCEPT !.group_cache = {}], ret |-> FALSE]

\* the flood fill of get_group_cached: the stones of colour c reachable
\* from the set S through neighbours of colour c
RECURSIVE Flood(_, _, _, _)
Flood(n, bd, c, S) ==
  LET T == S \cup {q \in AdjacentTo(n, S) : bd[q] = c}
  IN  IF T = S THEN S ELSE Flood(n, bd, c, T)

\* the group get_group_cached computes on a cache miss
GetGroup(n, bd, point) ==
  IF bd[point] = EMPTY THEN {} ELSE Flood(n, bd, bd[point], {point})

\* CacheHits, were the board left out of the key
CacheHitsAnyBoard(cache, point, bd) == {e \in cache : e.point = point}

\* the cache entries whose key is (point, board)
CacheHits(cache, point, bd) == {e \in cache : e.point = point /\ e.board = bd}

\* the end of get_group_cached on a cache miss: store the group, return it
StoreGroup(g, point, group) ==
  [g |-> [g EXCEPT !.group_cache =
            @ \cup {[point |-> point, board |-> g.board, group |-> group]}],
   ret |-> group]

\* get_group_cached: the cached group when the key (point, board) is in the
\* cache, else the flood fill, stored unless the point is empty
get_group_cached(g, point) ==
  IF CacheHits(g.group_cache, point, g.board) # {}
    THEN [g |-> g,
          ret |-> (CHOOSE e \in CacheHits(g.group_cache, point, g.board) : TRUE).group]
    ELSE IF g.board[point] = EMPTY
      THEN [g |-> g, ret |-> {}]
      ELSE StoreGroup(g, point, GetGroup(g.size, g.board, point))

\* get_liberties: the empty points next to a stone of the group
get_liberties(g, group) ==
  {q \in AdjacentTo(g.size, group) : g.board[q] = EMPTY}

\* the i-th neighbour of point, on the board or not
Neighbour(point, i) == <<point[1] + Dirs[i][1], point[2] + Dirs[i][2]>>

\* check_capture, from direction i on: the opposing groups next to point
\* that have no liberty other than point, with the cache as the calls leave
\* it.  CheckCaptureGroup is the body of the loop once get_group_cached has
\* returned r.
RECURSIVE CheckCaptureFrom(_, _, _, _), CheckCaptureGroup(_, _, _, _)
\* CheckCaptureGroup, were the neighbouring stone taken without its group
CheckCaptureGroupStoneOnly(r, point, i, captured) ==
  CheckCaptureFrom(r.g, point, i + 1,
    IF get_liberties(r.g, r.ret) \ {point} = {}
      THEN captured \cup {Neighbour(point, i)} ELSE captured)

CheckCaptureGroup(r, point, i, captured) ==
  CheckCaptureFrom(r.g, point, i + 1,
    IF get_liberties(r.g, r.ret) \ {point} = {} THEN captured \cup r.ret ELSE captured)

CheckCaptureFrom(g, point, i, captured) ==
  IF i > 4 THEN [g |-> g, ret |-> captured]
  ELSE IF /\ InRange(g.size, Neighbour(point, i))
          /\ g.board[Neighbour(point, i)] = Opponent(g.current_player)
    THEN CheckCaptureGroup(get_group_cached(g, Neighbour(point, i)), point, i, captured)
    ELSE CheckCaptureFrom(g, point, i + 1, captured)

check_capture(g, point) == CheckCaptureFrom(g, point, 1, {})

\* the board with the stones of S removed
Remove(bd, S) == [p \in DOMAIN bd |-> IF p \in S THEN EMPTY ELSE bd[p]]

\* the sequence s holds the board bd
Holds(s, bd) == \E i \in 1 .. Len(s) : s[i] = bd

\* the board with a stone of the player to move at point
Placed(g, point) == [g EXCEPT !.board[point] = g.current_player]

\* KoCompare, were the grid compared with the newest snapshot alone
KoCompareNewestOnly(temp_board, r) ==
  [g |-> [r.g EXCEPT !.board = temp_board],
   ret |-> r.g.previous_boards[Len(r.g.previous_boards)] = Remove(r.g.board, r.ret)]

\* KoCompare, were the board left as the temporary move made it
KoCompareKeepsGrid(temp_board, r) ==
  [g |-> [r.g EXCEPT !.board = Remove(r.g.board, r.ret)],
   ret |-> Holds(r.g.previous_boards, Remove(r.g.board, r.ret))]

\* the end of is_ko_violation, check_capture having returned r: remove the
\* captured stones, compare with every snapshot, restore the board
KoCompare(temp_board, r) ==
  [g |-> [r.g EXCEPT !.board = temp_board],
   ret |-> Holds(r.g.previous_boards, Remove(r.g.board, r.ret))]

\* is_ko_violation
is_ko_violation(g, point) ==
  IF g.previous_boards = <<>> THEN [g |-> g, ret |-> FALSE]
  ELSE KoCompare(g.board, check_capture(Placed(g, point), point))

\* SuicideVerdict, were the temporary stone left on the board
SuicideVerdictKeepsStone(temp_board, group, cp) ==
  [g |-> cp.g, ret |-> get_liberties(cp.g, group) # {} \/ cp.ret # {}]

\* SuicideVerdict, were the captured stones left out of the verdict
SuicideVerdictLibertiesOnly(temp_board, group, cp) ==
  [g |-> [cp.g EXCEPT !.board = temp_board], ret |-> get_liberties(cp.g, group) # {}]

\* the end of is_valid_move: the liberties of the group of the stone, the
\* board restored.  The value returned is has_liberties or captured_stones,
\* that is True or the set of captured stones; ret is its truth value.
SuicideVerdict(temp_board, group, cp) ==
  [g |-> [cp.g EXCEPT !.board = temp_board],
   ret |-> get_liberties(cp.g, group) # {} \/ cp.ret # {}]

\* the suicide check of is_valid_move, get_group_cached having returned gr
SuicideCheck(temp_board, gr, point) ==
  SuicideVerdict(temp_board, gr.ret, check_capture(gr.g, point))

\* is_valid_move after the ko check returned k
AfterKoCheck(k, point) ==
  IF k.ret THEN [g |-> k.g, ret |-> FALSE]
  ELSE SuicideCheck(k.g.board, get_group_cached(Placed(k.g, point), point), point)

\* is_valid_move
is_valid_move(g, point) ==
  IF point.kind = "pass" THEN [g |-> g, ret |-> TRUE]
  ELSE IF point.kind # "tuple" \/ Len(point.pt) # 2 THEN [g |-> g, ret |-> FALSE]
  ELSE IF ~InRange(g.size, point.pt) THEN [g |-> g, ret |-> FALSE]
  ELSE IF g.board[point.pt] # EMPTY THEN [g |-> g, ret |-> FALSE]
  ELSE AfterKoCheck(is_ko_violation(g, point.pt), point.pt)

\* PushBoard, were the oldest snapshot never dropped
PushBoardKeepsAll(s, bd) == Append(s, bd)

\* PushBoard, were the newest snapshot dropped from a full window
PushBoardDropsNewest(s, bd) ==
  IF Len(s) + 1 > HistoryCap THEN s ELSE Append(s, bd)

\* the history window after appending the board bd
PushBoard(s, bd) ==
  IF Len(s) + 1 > HistoryCap THEN Tail(Append(s, bd)) ELSE Append(s, bd)

\* PassMove, were the board stored in the history window as for a placement
PassMoveStoresBoard(g, point) ==
  [g |-> [g EXCEPT !.previous_boards = PushBoard(@, g.board),
                   !.consecutive_passes = @ + 1,
                   !.move_history = Append(@, point),
                   !.current_player = Opponent(@),
                   !.state = IF g.consecutive_passes + 1 >= 2 THEN FINISHED ELSE @],
   ret |-> TRUE]

\* PassMove, were the move left with the colour that passed
PassMoveKeepsPlayer(g, point) ==
  [g |-> [g EXCEPT !.consecutive_passes = @ + 1,
                   !.move_history = Append(@, point),
                   !.state = IF g.consecutive_passes + 1 >= 2 THEN FINISHED ELSE @],
   ret |-> TRUE]

\* make_move, a pass
PassMove(g, point) ==
  [g |-> [g EXCEPT !.consecutive_passes = @ + 1,
                   !.move_history = Append(@, point),
                   !.current_player = Opponent(@),
                   !.state = IF g.consecutive_passes + 1 >= 2 THEN FINISHED ELSE @],
   ret |-> TRUE]

\* Capture, were the captured stones counted and left on the board
CaptureKeepsStones(cp, point) ==
  [g |-> [cp.g EXCEPT
            !.captured_stones[cp.g.current_player] = @ + Cardinality(cp.ret),
            !.group_cache = {},
            !.move_history = Append(@, point),
            !.last_move = point,
            !.current_player = Opponent(@)],
   ret |-> TRUE]

\* Capture, were a capture counted as one stone whatever it takes
CaptureCountsOne(cp, point) ==
  [g |-> [cp.g EXCEPT
            !.captured_stones[cp.g.current_player] = @ + (IF cp.ret = {} THEN 0 ELSE 1),
            !.board = Remove(@, cp.ret),
            !.group_cache = {},
            !.move_history = Append(@, point),
            !.last_move = point,
            !.current_player = Opponent(@)],
   ret |-> TRUE]

\* the end of make_move, check_capture having returned cp: count and remove
\* the captured stones, clear the caches, record the move, switch players
Capture(cp, point) ==
  [g |-> [cp.g EXCEPT
            !.captured_stones[cp.g.current_player] = @ + Cardinality(cp.ret),
            !.board = Remove(@, cp.ret),
            !.group_cache = {},
            !.move_history = Append(@, point),
            !.last_move = point,
            !.current_player = Opponent(@)],
   ret |-> TRUE]

\* PlaceStone, were the pass counter left as it was
PlaceStoneKeepsPasses(g, point) ==
  Capture(check_capture([g EXCEPT !.previous_boards = PushBoard(@, g.board),
                                  !.board[point.pt] = g.current_player],
                        point.pt),
          point)

\* make_move after is_valid_move approved: store the board, place the stone
PlaceStone(g, point) ==
  Capture(check_capture([g EXCEPT !.previous_boards = PushBoard(@, g.board),
                                  !.board[point.pt] = g.current_player,
                                  !.consecutive_passes = 0],
                        point.pt),
          point)

\* make_move after is_valid_move returned v
AfterValidation(v, point) ==
  IF ~v.ret THEN [g |-> v.g, ret |-> FALSE] ELSE PlaceStone(v.g, point)

\* make_move, were the status not looked at
make_move_unguarded(g, point) ==
  IF point.kind = "pass" THEN PassMove(g, point)
  ELSE IF point.kind # "tuple" \/ Len(point.pt) # 2 THEN [g |-> g, ret |-> FALSE]
  ELSE IF ~InRange(g.size, point.pt) THEN [g |-> g, ret |-> FALSE]
  ELSE AfterValidation(is_valid_move(g, point), point)

\* make_move
make_move(g, point) ==
  IF g.state = FINISHED THEN [g |-> g, ret |-> FALSE]
  ELSE IF point.kind = "pass" THEN PassMove(g, point)
  ELSE IF point.kind # "tuple" \/ Len(point.pt) # 2 THEN [g |-> g, ret |-> FALSE]
  ELSE IF ~InRange(g.size, point.pt) THEN [g |-> g, ret |-> FALSE]
  ELSE AfterValidation(is_valid_move(g, point), point)

\* Scan, were the board scanned column by column
ScanByColumns(n, k) == <<k % n, k \div n>>

\* the k-th point of the row-major scan of a board of size n
Scan(n, k) == <<k \div n, k % n>>

\* get_valid_moves, from the k-th point of the row-major scan on.
\* ScanStep is the body of the loop once is_valid_move has returned v.
RECURSIVE GetValidMovesFrom(_, _, _), ScanStep(_, _, _)
ScanStep(v, k, valid_moves) ==
  GetValidMovesFrom(v.g, k + 1,
    IF v.ret THEN Append(valid_moves, Scan(v.g.size, k)) ELSE valid_moves)

GetValidMovesFrom(g, k, valid_moves) ==
  IF k >= g.size * g.size THEN [g |-> g, ret |-> valid_moves]
  ELSE ScanStep(is_valid_move(g, Pt(Scan(g.size, k)[1], Scan(g.size, k)[2])), k, valid_moves)

get_valid_moves(g) == GetValidMovesFrom(g, 0, <<>>)

\* the loop of flood_fill: the empty points reachable from S through empty
\* neighbours that are not in visited
RECURSIVE TerritoryPoints(_, _, _, _)
TerritoryPoints(n, bd, visited, S) ==
  LET T == S \cup {q \in AdjacentTo(n, S) \ visited : bd[q] = EMPTY}
  IN  IF T = S THEN S ELSE TerritoryPoints(n, bd, visited, T)

\* the colours of the stones next to the region, those flood_fill collects in boundary
Boundary(n, bd, visited, territory_points) ==
  {bd[q] : q \in {r \in AdjacentTo(n, territory_points) \ visited : bd[r] # EMPTY}}

\* Owner, were a region that borders both colours given to one of them
OwnerOfAny(boundary) ==
  IF boundary # {} THEN CHOOSE c \in boundary : TRUE ELSE EMPTY

\* the owner flood_fill returns: the colour of boundary when it holds one, else None (EMPTY)
Owner(boundary) ==
  IF Cardinality(boundary) = 1 THEN CHOOSE c \in boundary : TRUE ELSE EMPTY

\* flood_fill from a point not in visited: the region and the colour that owns it
Region(n, bd, visited, territory_points) ==
  [points |-> territory_points,
   color |-> Owner(Boundary(n, bd, visited, territory_points))]

flood_fill(n, bd, visited, point) ==
  IF point \in visited THEN [points |-> {}, color |-> EMPTY]
  ELSE Region(n, bd, visited, TerritoryPoints(n, bd, visited, {point}))

\* the scan of calculate_territory, from the k-th point of the board on.
\* Credit is the body of the loop once flood_fill has returned f.
RECURSIVE TerritoryFrom(_, _, _, _), Credit(_, _, _, _, _)
Credit(g, k, visited, territory, f) ==
  TerritoryFrom(g, k + 1, visited \cup f.points,
    IF f.color # EMPTY
      THEN [territory EXCEPT ![f.color] = @ + Cardinality(f.points)]
      ELSE territory)

TerritoryFrom(g, k, visited, territory) ==
  IF k >= g.size * g.size THEN territory
  ELSE IF g.board[Scan(g.size, k)] = EMPTY /\ Scan(g.size, k) \notin visited
    THEN Credit(g, k, visited, territory,
                flood_fill(g.size, g.board, visited, Scan(g.size, k)))
    ELSE TerritoryFrom(g, k + 1, visited, territory)

\* the end of calculate_territory: add the captured stones to the territory
AddCaptured(g, territory) ==
  [c \in {BLACK, WHITE} |-> territory[c] + g.captured_stones[c]]

\* calculate_territory
calculate_territory(g) ==
  AddCaptured(g, TerritoryFrom(g, 0, {}, [c \in {BLACK, WHITE} |-> 0]))

\* ------------------------------------------------------------------ AIPlayer
\* The operators take the game g and the colour of the player; they return
\* the game as the call leaves it and the value returned.

Abs(a) == IF a < 0 THEN 0 - a ELSE a

\* the end of evaluate_position on the game g, check_capture having returned
\* cp on the board with a stone of the player at point: the stone is taken
\* off, the score is the closeness to the centre, twice the empty
\* neighbours and ten times the stones captured
EvaluateScore(g, cp, point) ==
  [g |-> [cp.g EXCEPT !.board = Remove(@, {point})],
   ret |-> 0 - (Abs(point[1] - g.size \div 2) + Abs(point[2] - g.size \div 2))
           + 2 * Cardinality({q \in Adjacent(g.size, point) : g.board[q] = EMPTY})
           + 10 * Cardinality(cp.ret)]

\* AIPlayer.evaluate_position
evaluate_position(g, color, point) ==
  EvaluateScore(g, check_capture([g EXCEPT !.board[point] = color], point), point)

\* the loop of get_move from the k-th point of the scan on: available_moves
\* gets the score and the point of every valid move.  GetMoveStep is the body
\* once is_valid_move has returned v, GetMoveScored once evaluate_position
\* has returned e.
RECURSIVE GetMoveFrom(_, _, _, _), GetMoveStep(_, _, _, _), GetMoveScored(_, _, _, _)
GetMoveScored(e, color, k, available_moves) ==
  GetMoveFrom(e.g, color, k + 1,
    available_moves \cup {[score |-> e.ret, point |-> Scan(e.g.size, k)]})

GetMoveStep(v, color, k, available_moves) ==
  IF v.ret
    THEN GetMoveScored(evaluate_position(v.g, color, Scan(v.g.size, k)),
                       color, k, available_moves)
    ELSE GetMoveFrom(v.g, color, k + 1, available_moves)

GetMoveFrom(g, color, k, available_moves) ==
  IF k >= g.size * g.size THEN [g |-> g, ret |-> available_moves]
  ELSE GetMoveStep(is_valid_move(g, Pt(Scan(g.size, k)[1], Scan(g.size, k)[2])),
                   color, k, available_moves)

\* (score, point) a comes before b in available_moves.sort(reverse=True)
SortsBefore(a, b) ==
  \/ a.score > b.score
  \/ /\ a.score = b.score
     /\ \/ a.point[1] > b.point[1]
        \/ a.point[1] = b.point[1] /\ a.point[2] > b.point[2]

\* the moves choice(available_moves[:3])[1] can return, pass when there is
\* no valid move
Choice(available_moves) ==
  IF available_moves = {} THEN {Pass}
  ELSE {Pt(a.point[1], a.point[2]) :
          a \in {c \in available_moves :
                   Cardinality({b \in available_moves : SortsBefore(b, c)}) < 3}}

\* the end of get_move, the loop having returned r
GetMoveChoice(r) == [g |-> r.g, ret |-> Choice(r.ret)]

\* AIPlayer.get_move: ret is the set of the moves the random choice can return
get_move(g, color) == GetMoveChoice(GetMoveFrom(g, color, 0, {}))

\* ------------------------------------------------------------------ state

VARIABLES
  size, board, current_player, previous_boards, move_history,
  consecutive_passes, state, captured_stones, group_cache, last_move,
  call,   \* the last call made on the game: [op, arg]
  ret,    \* the value that call returned
  caller, \* who drives the game: the moves it plays and the points it probes
  vs_computer, \* GoGameGUI.vs_computer
  ai_player,   \* the colour of GoGameGUI.ai_player, EMPTY when there is none
  timers       \* the calls of ai_make_move that master.after has scheduled

game == <<size, board, current_player, previous_boards, move_history,
          consecutive_passes, state, captured_stones, group_cache, last_move>>
gui == <<vs_computer, ai_player, timers>>
vars == <<game, call, ret, caller, gui>>

\* the fields of the object, as the operators take them
G ==
  [size |-> size, board |-> board, current_player |-> current_player,
   previous_boards |-> previous_boards, move_history |-> move_history,
   consecutive_passes |-> consecutive_passes, state |-> state,
   captured_stones |-> captured_stones, group_cache |-> group_cache,
   last_move |-> last_move]

\* the object becomes h
Becomes(h) ==
  /\ size' = h.size
  /\ board' = h.board
  /\ current_player' = h.current_player
  /\ previous_boards' = h.previous_boards
  /\ move_history' = h.move_history
  /\ consecutive_passes' = h.consecutive_passes
  /\ state' = h.state
  /\ captured_stones' = h.captured_stones
  /\ group_cache' = h.group_cache
  /\ last_move' = h.last_move

\* GoGame(n): the state after construction, no call made yet
Constructed(n) ==
  /\ size = n
  /\ board = EmptyBoard(n)
  /\ current_player = BLACK
  /\ previous_boards = <<>>
  /\ move_history = <<>>
  /\ consecutive_passes = 0
  /\ state = ONGOING
  /\ captured_stones = [c \in {BLACK, WHITE} |-> 0]
  /\ group_cache = {}
  /\ last_move = NoMove
  /\ call = [op |-> "new", arg |-> NoMove]
  /\ ret = FALSE

\* ------------------------------------------------------------------ callers

\* The arguments a caller passes besides the points of the board: pass, a
\* point before the first row, a point past the last column, a tuple of the
\* wrong length, a value that is no tuple.
OffBoard(n) == {Pt(-1, 0), Pt(0, n)}
Malformed == {[kind |-> "tuple", pt |-> <<0>>], [kind |-> "other", pt |-> <<>>]}
OnBoard(n) == {Pt(p[1], p[2]) : p \in Points(n)}
Arguments(n) == {Pass} \cup OnBoard(n) \cup OffBoard(n) \cup Malformed

\* The caller who makes every move in every state, on the 2 x 2 board, until
\* the record holds MaxMoves moves, and queries the points of probe.
FreeCaller == [size |-> 2, free |-> TRUE, line |-> <<>>, probe |-> {Pt(0, 0)}]

\* A caller who plays the moves of one game in order.  Between them it tries
\* moves that are rejected and queries the points of probe.
\* 2 x 2: before the seventh move Black may not play (0, 0), which would
\* recreate the grid that stood before the third move.  Before the nineteenth
\* the grid is the same and Black is to move again; eight later placements
\* have pushed that grid out of the history window, and Black plays (0, 0).
LineAging ==
  [size |-> 2, free |-> FALSE,
   line |-> << Pt(0, 0), Pt(0, 1), Pt(1, 0), Pass, Pt(1, 1), Pt(0, 1), Pt(1, 0),
               Pt(0, 0), Pass, Pt(1, 1), Pt(1, 0), Pt(1, 1), Pass, Pt(0, 1),
               Pt(0, 0), Pt(0, 1), Pt(1, 1), Pt(0, 1), Pt(0, 0) >>,
   probe |-> {Pt(0, 0), Pt(1, 0)}]

\* 3 x 3: a ko in the corner.  Black takes at (0, 1), White may not retake at
\* (0, 0) at once, plays (2, 2) and retakes; the game ends on two passes.
LineKo ==
  [size |-> 3, free |-> FALSE,
   line |-> << Pt(1, 0), Pt(1, 1), Pass, Pt(0, 2), Pass, Pt(0, 0), Pt(0, 1),
               Pt(2, 2), Pass, Pt(0, 0), Pass, Pass >>,
   probe |-> {Pt(0, 0), Pt(1, 2)}]

\* 3 x 3: Black's move at (0, 0) takes the two white stones (0, 1) and (1, 0),
\* two chains, at once; the game ends on two passes.
LineTwoChains ==
  [size |-> 3, free |-> FALSE,
   line |-> << Pt(1, 1), Pt(0, 1), Pt(0, 2), Pt(1, 0), Pt(2, 0), Pt(2, 2), Pt(0, 0),
               Pass, Pass >>,
   probe |-> {Pt(0, 0), Pt(0, 1)}]

\* 3 x 3: Black fills the border while White passes; the game ends on two passes.
LineBorder ==
  [size |-> 3, free |-> FALSE,
   line |-> << Pt(0, 0), Pass, Pt(0, 1), Pass, Pt(0, 2), Pass, Pt(1, 2), Pass,
               Pt(2, 2), Pass, Pt(2, 1), Pass, Pt(2, 0), Pass, Pt(1, 0), Pass, Pass >>,
   probe |-> {Pt(1, 1)}]

\* 2 x 2: White passes as the eighth move; Black's (0, 0) would recreate the
\* grid that stood before the fifth move and stays barred after the pass.
LinePass ==
  [size |-> 2, free |-> FALSE,
   line |-> << Pt(0, 0), Pt(0, 1), Pt(1, 0), Pass, Pt(1, 1), Pt(0, 1), Pt(1, 0), Pass >>,
   probe |-> {Pt(0, 0)}]

Callers == {FreeCaller, LineAging, LineKo, LineTwoChains, LineBorder, LinePass}

\* the arguments the caller passes to is_valid_move
Queries == {Pass} \cup caller.probe \cup OffBoard(size) \cup Malformed

\* the points the caller passes to get_group_cached, get_liberties,
\* check_capture and is_ko_violation
Probes == {m.pt : m \in caller.probe}

\* the arguments the caller passes to make_move
Tries ==
  IF caller.free THEN Arguments(size)
  ELSE Queries \cup {caller.line[i] : i \in {Len(move_history) + 1} \cap DOMAIN caller.line}

\* the caller lets make_move(m) be accepted: any move while the record is
\* short for the caller who tries everything, the next move of its game for
\* the others
Plays(m) ==
  IF caller.free THEN Len(move_history) < MaxMoves
  ELSE /\ Len(move_history) < Len(caller.line)
       /\ m = caller.line[Len(move_history) + 1]

\* ------------------------------------------------------------------ calls

\* the call op(m) returned r: the object is as the call left it
Returned(op, m, r) ==
  /\ Becomes(r.g)
  /\ call' = [op |-> op, arg |-> m]
  /\ ret' = r.ret
  /\ UNCHANGED <<caller, gui>>

\* a call of make_move(m)
MakeMoveReturned(m, r) == (r.ret => Plays(m)) /\ Returned("make_move", m, r)
MakeMove(m) == MakeMoveReturned(m, make_move(G, m))

\* a call of is_valid_move(m)
IsValidMove(m) == Returned("is_valid_move", m, is_valid_move(G, m))

\* a call of clear_caches()
ClearCaches == Returned("clear_caches", NoMove, clear_caches(G))

\* a call of get_group_cached(p)
GetGroupCached(p) == Returned("get_group_cached", Pt(p[1], p[2]), get_group_cached(G, p))

\* a call of get_liberties(group), group being the chain of the point p
GetLiberties(p) ==
  /\ call' = [op |-> "get_liberties", arg |-> Pt(p[1], p[2])]
  /\ ret' = get_liberties(G, GetGroup(size, board, p))
  /\ UNCHANGED <<game, caller, gui>>

\* a call of check_capture(p)
CheckCapture(p) == Returned("check_capture", Pt(p[1], p[2]), check_capture(G, p))

\* a call of is_ko_violation(p)
IsKoViolation(p) == Returned("is_ko_violation", Pt(p[1], p[2]), is_ko_violation(G, p))

\* a call of get_valid_moves()
GetValidMoves == Returned("get_valid_moves", NoMove, get_valid_moves(G))

\* a call of calculate_territory()
CalculateTerritory ==
  /\ call' = [op |-> "calculate_territory", arg |-> NoMove]
  /\ ret' = calculate_territory(G)
  /\ UNCHANGED <<game, caller, gui>>

\* the text show_game_result shows for the score territory: both scores, the
\* winner it names and the margin
ResultText(territory) ==
  [black |-> territory[BLACK],
   white |-> territory[WHITE],
   winner |-> IF territory[BLACK] > territory[WHITE] THEN "Black" ELSE "White",
   by |-> IF territory[BLACK] > territory[WHITE]
          THEN territory[BLACK] - territory[WHITE]
          ELSE territory[WHITE] - territory[BLACK]]

\* GoGameGUI.show_game_result(), on the game g
show_game_result(g) == ResultText(calculate_territory(g))

\* a call of show_game_result(), which pass_move makes when the game is Finished
ShowGameResult ==
  /\ state = FINISHED
  /\ call' = [op |-> "show_game_result", arg |-> NoMove]
  /\ ret' = show_game_result(G)
  /\ UNCHANGED <<game, caller, gui>>

\* no window: the game is driven through its methods
NoGui == vs_computer = FALSE /\ ai_player = EMPTY /\ timers = 0

Init == \E c \in Callers : caller = c /\ Constructed(c.size) /\ NoGui

Next ==
  \/ \E m \in Tries : MakeMove(m)
  \/ \E m \in Queries : IsValidMove(m)
  \/ ClearCaches
  \/ \E p \in Probes : GetGroupCached(p)
  \/ \E p \in Probes : GetLiberties(p)
  \/ \E p \in Probes : CheckCapture(p)
  \/ \E p \in Probes : IsKoViolation(p)
  \/ GetValidMoves
  \/ CalculateTerritory
  \/ ShowGameResult

Spec == Init /\ [][Next]_vars

\* ------------------------------------------------------------------ GoGameGUI
\* The window in vs-computer mode.  Tk runs one handler at a time; a click,
\* the Pass button, a mode button and a callback scheduled with master.after
\* come in any order.

\* the user at the window; probe holds the points evaluate_position is called on
Window == [size |-> GuiSize, free |-> TRUE, line |-> <<>>, probe |-> {Pt(0, 0)}]

\* GoGameGUI(master): the state after construction
GuiConstructed ==
  /\ caller = Window
  /\ Constructed(GuiSize)
  /\ vs_computer = FALSE
  /\ ai_player = EMPTY
  /\ timers = 0

\* the handler op has run with the move m and make_move returned r; t
\* callbacks are left scheduled
Handled(op, m, r, t) ==
  /\ Becomes(r.g)
  /\ call' = [op |-> op, arg |-> m]
  /\ ret' = r.ret
  /\ timers' = t
  /\ UNCHANGED caller

\* the handler op has run and done nothing
Ignored(op, m) ==
  /\ call' = [op |-> op, arg |-> m]
  /\ ret' = FALSE
  /\ UNCHANGED <<game, caller, gui>>

\* ai_make_move on the game g: nothing when the game is Finished, else
\* make_move on a move get_move returns
AiMoved(op, gm, t) ==
  \E m \in gm.ret : Handled(op, m, make_move(gm.g, m), t)

\* start_vs_computer(player_is_black): a new game; the AI, when it is Black,
\* moves at once
StartVsComputer(player_is_black) ==
  /\ vs_computer' = TRUE
  /\ ai_player' = IF player_is_black THEN WHITE ELSE BLACK
  /\ IF player_is_black
       THEN Handled("start_vs_computer", NoMove, [g |-> NewGame(GuiSize), ret |-> FALSE], timers)
       ELSE AiMoved("start_vs_computer", get_move(NewGame(GuiSize), BLACK), timers)

\* on_click(event), make_move having returned r: the AI's reply is scheduled
\* when the move was accepted in vs-computer mode
OnClickMoved(pos, r) ==
  Handled("on_click", pos, r,
          IF r.ret /\ vs_computer /\ r.g.state = ONGOING THEN timers + 1 ELSE timers)

\* on_click(event), the event being at the point pos of the board or, pos
\* being NoMove, off the board
OnClick(pos) ==
  /\ Len(move_history) < MaxGuiMoves
  /\ timers < MaxTimers
  /\ UNCHANGED <<vs_computer, ai_player>>
  /\ IF state = ONGOING /\ pos # NoMove
       THEN OnClickMoved(pos, make_move(G, pos))
       ELSE Ignored("on_click", pos)

\* pass_move(), make_move("pass") having returned r: the AI's reply is
\* scheduled when the game goes on in vs-computer mode, the result is shown
\* when the game is Finished
PassMoveMoved(r) ==
  /\ Becomes(r.g)
  /\ call' = [op |-> "pass_move", arg |-> Pass]
  /\ ret' = IF r.g.state = FINISHED THEN show_game_result(r.g) ELSE r.ret
  /\ timers' = IF vs_computer /\ r.g.state = ONGOING THEN timers + 1 ELSE timers
  /\ UNCHANGED caller

\* pass_move(), the Pass button
PassMoveButton ==
  /\ Len(move_history) < MaxGuiMoves
  /\ timers < MaxTimers
  /\ UNCHANGED <<vs_computer, ai_player>>
  /\ IF state = ONGOING
       THEN PassMoveMoved(make_move(G, Pass))
       ELSE Ignored("pass_move", Pass)

\* ai_make_move(), a callback scheduled with master.after
AiMakeMove ==
  /\ timers > 0
  /\ Len(move_history) < MaxGuiMoves
  /\ UNCHANGED <<vs_computer, ai_player>>
  /\ IF state = ONGOING
       THEN AiMoved("ai_make_move", get_move(G, ai_player), timers - 1)
       ELSE Handled("ai_make_move", NoMove, [g |-> G, ret |-> FALSE], timers - 1)

\* a call of get_move() on the AIPlayer of the window: m is the move the
\* random choice returns
GetMoveReturned(gm) ==
  \E m \in gm.ret : Returned("get_move", NoMove, [g |-> gm.g, ret |-> m])

GetMove == ai_player # EMPTY /\ GetMoveReturned(get_move(G, ai_player))

\* a call of evaluate_position(p) on the AIPlayer of the window
EvaluatePosition(p) ==
  /\ ai_player # EMPTY
  /\ Returned("evaluate_position", Pt(p[1], p[2]), evaluate_position(G, ai_player, p))

GuiInit == GuiConstructed

GuiNext ==
  \/ \E player_is_black \in BOOLEAN : StartVsComputer(player_is_black)
  \/ \E pos \in OnBoard(size) \cup {NoMove} : OnClick(pos)
  \/ PassMoveButton
  \/ AiMakeMove
  \/ GetMove
  \/ \E p \in Probes : EvaluatePosition(p)

GuiSpec == GuiInit /\ [][GuiNext]_vars

\* ------------------------------------------------------------------ rules of Go
\* What the claims speak of, stated without the operators above.

\* the points 4-adjacent to a point of S
Around(n, S) == UNION {Adjacent(n, r) : r \in S}

\* the set S closed under "a point of colour c 4-adjacent to a point of the set"
RECURSIVE Closure(_, _, _, _)
Closure(n, bd, c, S) ==
  LET more == {q \in Around(n, S) \ S : bd[q] = c}
  IN  IF more = {} THEN S ELSE Closure(n, bd, c, S \cup more)

\* the chain of p: the maximal 4-connected set of points of the colour of p
\* that holds p (for an empty p, its empty region)
Chain(n, bd, p) == Closure(n, bd, bd[p], {p})

\* the liberties of a set of points: the empty points 4-adjacent to one of them
Liberties(n, bd, S) == {q \in Around(n, S) : bd[q] = EMPTY}

\* the board with a stone of colour c at p
WithStone(bd, c, p) == [bd EXCEPT ![p] = c]

\* the stones of the chains of colour c next to p that have no liberty on bd
Dead(n, bd, c, p) ==
  UNION {ch \in {Chain(n, bd, q) : q \in {r \in Adjacent(n, p) : bd[r] = c}} :
           Liberties(n, bd, ch) = {}}

\* the stones a stone of colour c at p takes: the chains of the other colour
\* next to p that have no liberty once p is occupied
Taken(n, bd, c, p) ==
  LET placed == WithStone(bd, c, p) IN Dead(n, placed, Opponent(c), p)

\* the board bd with the points of S empty
Without(bd, S) == [q \in DOMAIN bd |-> IF q \in S THEN EMPTY ELSE bd[q]]

\* the grid after a stone of colour c at p and the removal of what it takes
Result(n, bd, c, p) ==
  LET placed == WithStone(bd, c, p)
      taken == Dead(n, placed, Opponent(c), p)
  IN  Without(placed, taken)

\* the stone of colour c at p has a liberty, alone or through its chain
HasLiberty(n, bd, c, p) ==
  LET placed == WithStone(bd, c, p) IN Liberties(n, placed, Chain(n, placed, p)) # {}

\* the fields a rejected call must leave alone
Committed ==
  <<board, current_player, captured_stones, previous_boards, consecutive_passes,
    state, move_history>>

\* the empty points of the board
EmptyPoints == {p \in Points(size) : board[p] = EMPTY}

\* make_move((x, y)) would be accepted in this state
Accepts(p) == make_move(G, Pt(p[1], p[2])).ret

\* the last call was make_move on a point of the board
MovedAt(p) == call.op = "make_move" /\ call.arg = Pt(p[1], p[2])

\* the colour that makes the k-th move of a game: Black moves first
Mover(k) == IF k % 2 = 1 THEN BLACK ELSE WHITE

\* the grids that stood before the placements among the moves k .. Len(h) of
\* the record h, oldest first, bd being the grid before the k-th move
RECURSIVE GridsBefore(_, _, _, _)
GridsBefore(n, h, k, bd) ==
  IF k > Len(h) THEN <<>>
  ELSE IF h[k].kind = "pass" THEN GridsBefore(n, h, k + 1, bd)
  ELSE <<bd>> \o GridsBefore(n, h, k + 1, Result(n, bd, Mover(k), h[k].pt))

\* the grids that stood before the placements of the game so far, oldest first
PastGrids == GridsBefore(size, move_history, 1, EmptyBoard(size))

\* the grid after the first k moves of the record h
RECURSIVE GridAfter(_, _, _)
GridAfter(n, h, k) ==
  IF k = 0 THEN EmptyBoard(n)
  ELSE IF h[k].kind = "pass" THEN GridAfter(n, h, k - 1)
  ELSE Result(n, GridAfter(n, h, k - 1), Mover(k), h[k].pt)

\* the elements of the sequence s, but for the last k
Older(s, k) == {s[i] : i \in 1 .. Len(s) - k}

\* the last k elements of the sequence s
Newest(s, k) == {s[i] : i \in {j \in 1 .. Len(s) : j > Len(s) - k}}

\* the colours of the stones 4-adjacent to a point of the set S
Bordering(n, bd, S) == {bd[q] : q \in Around(n, S)} \ {EMPTY}

\* the score of colour c: the empty points whose region borders stones of
\* colour c and of no other colour, plus the stones c has captured
Score(c) ==
  Cardinality({p \in EmptyPoints : Bordering(size, board, Chain(size, board, p)) = {c}})
    + captured_stones[c]

\* the points on the edge of a board of size n
Border(n) == {p \in Points(n) : p[1] \in {0, n - 1} \/ p[2] \in {0, n - 1}}

\* the value v is a score: a number of points for each colour
IsScore(v) == DOMAIN v = {BLACK, WHITE} /\ \A c \in {BLACK, WHITE} : v[c] \in Nat

\* the place of the point p in the row-major order of a board of size n
Index(n, p) == p[1] * n + p[2]

\* the elements of the sequence s
Range(s) == {s[i] : i \in DOMAIN s}

\* the object h has the grid, the side to move, the history snapshots, the
\* captured counts, the pass counter and the status of the game
SameGame(h) ==
  /\ h.board = board
  /\ h.current_player = current_player
  /\ h.previous_boards = previous_boards
  /\ h.captured_stones = captured_stones
  /\ h.consecutive_passes = consecutive_passes
  /\ h.state = state

\* the last k elements of the sequence s, in their order
LastOf(s, k) == SubSeq(s, IF Len(s) > k THEN Len(s) - k + 1 ELSE 1, Len(s))

\* the number of passes at the end of the record h
RECURSIVE TrailingPasses(_)
TrailingPasses(h) ==
  IF h = <<>> \/ h[Len(h)] # Pass THEN 0
  ELSE 1 + TrailingPasses(SubSeq(h, 1, Len(h) - 1))

\* the chain of the point p on the grid bd, no chain when p is empty
ChainOrNone(n, bd, p) == IF bd[p] = EMPTY THEN {} ELSE Chain(n, bd, p)

\* ------------------------------------------------------------------ claims

\* C1: a make_move call that returns False (a point off the board, an occupied
\* point, a ko violation, a suicide, a malformed argument, any argument once
\* the game is Finished) leaves the grid, the side to move, the captured
\* counts, the history snapshots, the pass counter, the status and the game
\* record as they were before the call.
C1_RejectedMoveChangesNothing ==
  [][(call'.op = "make_move" /\ ~ret') => UNCHANGED Committed]_vars

\* a make_move on an empty point has just been rejected as a ko violation
C1_Witness ==
  /\ state = ONGOING
  /\ call.op = "make_move" /\ call.arg \in OnBoard(size) /\ ~ret
  /\ board[call.arg.pt] = EMPTY
  /\ is_ko_violation(G, call.arg.pt).ret

\* C2: a placement on an empty point whose resulting grid (the stone placed,
\* the opposing chains it takes removed) equals a snapshot of the history
\* window is rejected, and the current grid differs from every snapshot of
\* previous_boards.
C2_KoSafety ==
  /\ ~Holds(previous_boards, board)
  /\ previous_boards # <<>> =>
       \A p \in EmptyPoints :
         Holds(previous_boards, Result(size, board, current_player, p)) => ~Accepts(p)

\* White's retake of a ko has just been rejected: the stone would take a
\* stone and recreate the newest snapshot
C2_Witness ==
  /\ state = ONGOING
  /\ \E p \in EmptyPoints :
       /\ MovedAt(p) /\ ~ret
       /\ Taken(size, board, current_player, p) # {}
       /\ Result(size, board, current_player, p) = previous_boards[Len(previous_boards)]

\* C3: a placement on an empty point that takes no opposing stone and leaves
\* its own chain without a liberty is rejected by make_move; and, the game
\* being Ongoing, a placement on an empty point that is no ko violation is
\* accepted when its chain has a liberty or it takes an opposing stone.
C3_SuicideRule ==
  \A p \in EmptyPoints :
    LET takes == Taken(size, board, current_player, p) # {}
        liberty == HasLiberty(size, board, current_player, p)
        accepted == Accepts(p)
    IN  /\ (~takes /\ ~liberty) => ~accepted
        /\ (/\ state = ONGOING
            /\ liberty \/ takes
            /\ ~Holds(previous_boards, Result(size, board, current_player, p))) => accepted

\* C3 with its second half for every status: a placement on an empty point
\* that is no ko violation is accepted when its chain has a liberty or it
\* takes an opposing stone, whether the game is Ongoing or Finished.
C3_SuicideRuleInEveryStatus ==
  \A p \in EmptyPoints :
    LET takes == Taken(size, board, current_player, p) # {}
        liberty == HasLiberty(size, board, current_player, p)
        accepted == Accepts(p)
    IN  /\ (~takes /\ ~liberty) => ~accepted
        /\ (/\ liberty \/ takes
            /\ ~Holds(previous_boards, Result(size, board, current_player, p))) => accepted

\* a suicide has just been rejected, and the last stone placed had no liberty
\* of its own on the grid before it (the newest snapshot) and took a stone
C3_Witness ==
  /\ state = ONGOING
  /\ \E p \in EmptyPoints :
       /\ MovedAt(p) /\ ~ret
       /\ Taken(size, board, current_player, p) = {}
       /\ ~HasLiberty(size, board, current_player, p)
  /\ last_move.kind = "tuple"
  /\ board[last_move.pt] # EMPTY
  /\ ~HasLiberty(size, previous_boards[Len(previous_boards)], board[last_move.pt], last_move.pt)
  /\ Taken(size, previous_boards[Len(previous_boards)], board[last_move.pt], last_move.pt) # {}

\* C4: an accepted placement at P makes P the mover's colour, clears exactly
\* the opposing chains next to P that have no liberty once P is occupied,
\* each of them whole, and changes no other cell.
C4_PlacementEffect ==
  [][(call'.op = "make_move" /\ ret' /\ call'.arg.kind = "tuple")
       => board' = Result(size, board, current_player, call'.arg.pt)]_vars

\* the last move took two chains at once: two stones that were not joined on
\* the grid before the move (the newest snapshot) are both gone
C4_Witness ==
  /\ call.op = "make_move" /\ ret /\ call.arg.kind = "tuple"
  /\ \E p, q \in EmptyPoints :
       /\ previous_boards[Len(previous_boards)][p] = current_player
       /\ previous_boards[Len(previous_boards)][q] = current_player
       /\ q \notin Chain(size, previous_boards[Len(previous_boards)], p)

\* C5: an accepted pass that follows an accepted pass sets the status to
\* Finished, and once the status is Finished it stays Finished and every
\* make_move call, a placement or a pass, returns False.
C5_TwoPassesFinish ==
  [][/\ (/\ call'.op = "make_move" /\ call'.arg = Pass /\ ret'
         /\ move_history # <<>> /\ move_history[Len(move_history)] = Pass)
          => state' = FINISHED
     /\ state = FINISHED =>
          /\ state' = FINISHED
          /\ call'.op = "make_move" => ~ret'
          /\ \A m \in Arguments(size) : ~make_move(G, m).ret]_vars

\* the game ended on two passes and a third pass has just been rejected
C5_Witness ==
  /\ state = FINISHED
  /\ Len(move_history) >= 2
  /\ move_history[Len(move_history)] = Pass
  /\ move_history[Len(move_history) - 1] = Pass
  /\ call = [op |-> "make_move", arg |-> Pass]
  /\ ~ret

\* C6: between calls, every chain of stones on the grid has a liberty.
C6_ChainsHaveLiberties ==
  \A p \in Points(size) :
    board[p] # EMPTY => Liberties(size, board, Chain(size, board, p)) # {}

\* the last move took a stone that was on the grid before it (the newest
\* snapshot) and left its own chain with one liberty
C6_Witness ==
  /\ call.op = "make_move" /\ call.arg.kind = "tuple" /\ ret
  /\ \E q \in EmptyPoints : previous_boards[Len(previous_boards)][q] = current_player
  /\ Cardinality(Liberties(size, board, Chain(size, board, call.arg.pt))) = 1

\* C7: a placement whose resulting grid stood before one of the last 8
\* placements is rejected; a placement is rejected as a ko violation only
\* then, never for an older grid; so, the game being Ongoing, a placement
\* with a liberty or a capture whose resulting grid stood only before older
\* placements is accepted.
C7_KoWindowAging ==
  LET recent == Newest(PastGrids, HistoryCap)
  IN  \A p \in EmptyPoints :
        LET res == Result(size, board, current_player, p)
        IN  /\ res \in recent => ~Accepts(p)
            /\ is_ko_violation(G, p).ret => res \in recent
            /\ (/\ state = ONGOING
                /\ res \notin recent
                /\ \/ HasLiberty(size, board, current_player, p)
                   \/ Taken(size, board, current_player, p) # {}) => Accepts(p)

\* the placement just accepted recreated a grid that stood before a placement
\* older than the last 8, and before none of the last 8; and before an
\* earlier move k the grid and the mover were the same as before this
\* placement, when the same placement would have recreated a grid that stood
\* before one of the 8 placements preceding k
C7_Witness ==
  /\ call.op = "make_move" /\ call.arg.kind = "tuple" /\ ret
  /\ board \in Older(PastGrids, HistoryCap)
  /\ board \notin Newest(PastGrids, HistoryCap)
  /\ LET last == Len(move_history)
     IN  \E k \in 1 .. last - 1 :
           /\ Mover(k) = Mover(last)
           /\ GridAfter(size, move_history, k - 1) = GridAfter(size, move_history, last - 1)
           /\ board \in Newest(GridsBefore(size, SubSeq(move_history, 1, k - 1), 1,
                                           EmptyBoard(size)), HistoryCap)

\* C8: when the status is Finished is_valid_move returns false for every
\* point and get_valid_moves returns no point, so that a point is_valid_move
\* reports legal is accepted by a make_move that follows at once.
C8_LegalMeansAccepted ==
  /\ state = FINISHED =>
       /\ (call.op = "is_valid_move" /\ call.arg \in OnBoard(size)) => ~ret
       /\ call.op = "get_valid_moves" => ret = <<>>
  /\ \A p \in Points(size) : is_valid_move(G, Pt(p[1], p[2])).ret => Accepts(p)

\* C9: calculate_territory gives each colour the sizes of the maximal
\* 4-connected empty regions whose neighbouring stones are all of that colour
\* (a region that borders both colours or no stone counts for nobody) plus
\* the stones that colour has captured.
C9_Scoring ==
  /\ calculate_territory(G) = [c \in {BLACK, WHITE} |-> Score(c)]
  /\ call.op = "calculate_territory" => ret = [c \in {BLACK, WHITE} |-> Score(c)]

\* the score of a finished game whose border is black and whose interior is
\* empty: every interior point to Black, nothing to White
C9_Witness ==
  /\ state = FINISHED
  /\ call.op = "calculate_territory"
  /\ \A p \in Border(size) : board[p] = BLACK
  /\ \A p \in Points(size) \ Border(size) : board[p] = EMPTY
  /\ ret[BLACK] = Cardinality(Points(size) \ Border(size))
  /\ ret[BLACK] > 0
  /\ ret[WHITE] = 0

\* C10: a call of calculate_territory while the status is Ongoing returns no
\* score.
C10_NoScoreWhileOngoing ==
  (call.op = "calculate_territory" /\ state = ONGOING) => ~IsScore(ret)

\* C11: the winner show_game_result names is the colour with the strictly
\* higher score, and when the two scores are equal it names no winner but
\* reports a tie.
C11_WinnerOrTie ==
  call.op = "show_game_result" =>
    /\ ret.black > ret.white => ret.winner = "Black"
    /\ ret.white > ret.black => ret.winner = "White"
    /\ ret.black = ret.white => ret.winner \notin {"Black", "White"}

\* C12: get_valid_moves returns, in row-major order and without duplicates,
\* exactly the points on which is_valid_move holds; no point it returns is
\* occupied, and every point it returns passes is_valid_move when checked
\* again right after the call.
C12_ValidMovesList ==
  LET r == get_valid_moves(G)
  IN  /\ \A i, j \in DOMAIN r.ret :
           i < j => Index(size, r.ret[i]) < Index(size, r.ret[j])
      /\ Range(r.ret) = {p \in Points(size) : is_valid_move(G, Pt(p[1], p[2])).ret}
      /\ \A p \in Range(r.ret) : board[p] = EMPTY
      /\ \A p \in Range(r.ret) : is_valid_move(r.g, Pt(p[1], p[2])).ret
      /\ call.op = "get_valid_moves" =>
           /\ ret = r.ret
           /\ \A p \in Range(ret) : is_valid_move(G, Pt(p[1], p[2])).ret

\* get_valid_moves has just returned several points of a board that holds a
\* stone and an empty point it did not return
C12_Witness ==
  /\ call.op = "get_valid_moves"
  /\ Len(ret) >= 2
  /\ EmptyPoints \ Range(ret) # {}
  /\ Points(size) \ EmptyPoints # {}

\* C13: a call of is_valid_move, is_ko_violation, check_capture or
\* get_valid_moves returns with the grid, the side to move, the history
\* snapshots, the captured counts, the pass counter and the status as they
\* were, whatever it returns; and a second is_valid_move on the same point
\* gives the answer of the first.
C13_ValidationHasNoEffect ==
  /\ \A m \in Arguments(size) :
       LET v == is_valid_move(G, m)
       IN  SameGame(v.g) /\ is_valid_move(v.g, m).ret = v.ret
  /\ \A p \in Points(size) :
       /\ SameGame(is_ko_violation(G, p).g)
       /\ SameGame(check_capture(G, p).g)
  /\ SameGame(get_valid_moves(G).g)

\* is_valid_move has just accepted an empty point where the stone it tried
\* takes opposing stones, in a game that holds history snapshots, and has
\* left groups in the cache
C13_Witness ==
  /\ call.op = "is_valid_move"
  /\ call.arg \in OnBoard(size)
  /\ ret
  /\ board[call.arg.pt] = EMPTY
  /\ Taken(size, board, current_player, call.arg.pt) # {}
  /\ previous_boards # <<>>
  /\ group_cache # {}

\* C14: an accepted stone placement adds to the mover's captured count the
\* number of opposing stones it removes from the grid and leaves the other
\* count alone; every other step (a pass, a rejected move, a validation, a
\* scoring) leaves both counts alone.  Hence no count ever decreases.
C14_CapturedCounts ==
  [][IF call'.op = "make_move" /\ call'.arg \in OnBoard(size) /\ ret'
       THEN /\ captured_stones'[current_player] = captured_stones[current_player]
                 + Cardinality({p \in Points(size) :
                                  board[p] = Opponent(current_player) /\ board'[p] = EMPTY})
            /\ captured_stones'[Opponent(current_player)]
                 = captured_stones[Opponent(current_player)]
       ELSE captured_stones' = captured_stones]_vars

\* the placement just accepted removed two or more stones of the colour now
\* to move from the grid that stood before it, and the mover's count is at
\* least that number
C14_Witness ==
  /\ call.op = "make_move" /\ call.arg \in OnBoard(size) /\ ret
  /\ Cardinality({p \in Points(size) :
                    /\ previous_boards[Len(previous_boards)][p] = current_player
                    /\ board[p] = EMPTY}) >= 2
  /\ captured_stones[Opponent(current_player)] >= 2

\* C15: previous_boards holds at most 8 snapshots: the grids that stood
\* before the most recent accepted stone placements, as many as 8 of them,
\* oldest first.  So each accepted placement has appended the grid that stood
\* before it and, the window being full, dropped the oldest.
C15_HistoryWindow ==
  /\ Len(previous_boards) <= HistoryCap
  /\ previous_boards = LastOf(PastGrids, HistoryCap)

\* a placement has just been accepted in a game of ten or more placements:
\* the window is full and the grid before the first placement has left it
C15_Witness ==
  /\ call.op = "make_move" /\ call.arg \in OnBoard(size) /\ ret
  /\ Len(PastGrids) >= HistoryCap + 2
  /\ Len(previous_boards) = HistoryCap
  /\ PastGrids[1] \notin Range(previous_boards)
  /\ previous_boards[1] = PastGrids[Len(PastGrids) - HistoryCap + 1]

\* C16: an accepted stone placement sets the pass counter to zero; the pass
\* counter is the number of passes at the end of the record, which holds the
\* accepted moves only; and the status is Finished exactly when the last two
\* moves of the record are passes.  So two passes with a placement between
\* them do not end the game, and two passes with rejected moves between them do.
C16_PassCounter ==
  [][/\ (call'.op = "make_move" /\ call'.arg \in OnBoard(size) /\ ret')
          => consecutive_passes' = 0 /\ state' = ONGOING
     /\ (call'.op = "make_move" /\ ~ret') => move_history' = move_history
     /\ consecutive_passes' = TrailingPasses(move_history')
     /\ state' = FINISHED <=> TrailingPasses(move_history') >= 2]_vars

\* the second of two consecutive passes has just ended a game in which an
\* earlier pass was followed by a stone placement
C16_Witness ==
  /\ call.op = "make_move" /\ call.arg = Pass /\ ret
  /\ state = FINISHED
  /\ consecutive_passes = 2
  /\ \E i \in 1 .. Len(move_history) - 3 :
       move_history[i] = Pass /\ move_history[i + 1] \in OnBoard(size)

\* C17: an accepted pass leaves the grid, the history snapshots and both
\* captured counts as they were; it passes the move to the other colour,
\* adds one to the pass counter and one entry to the record, and makes the
\* status Finished when it is the second pass in a row.  So a pass does not
\* age the history window.
C17_PassEffect ==
  [][(call'.op = "make_move" /\ call'.arg = Pass /\ ret') =>
       /\ board' = board
       /\ previous_boards' = previous_boards
       /\ captured_stones' = captured_stones
       /\ current_player' = Opponent(current_player)
       /\ consecutive_passes' = consecutive_passes + 1
       /\ move_history' = Append(move_history, Pass)
       /\ state' = IF consecutive_passes = 1 THEN FINISHED ELSE state
       /\ UNCHANGED <<size, last_move, group_cache>>]_vars

\* a pass has just been accepted, the game goes on, and a point is still
\* barred to the colour to move as a ko violation by a snapshot of the window
C17_Witness ==
  /\ call.op = "make_move" /\ call.arg = Pass /\ ret
  /\ state = ONGOING
  /\ previous_boards # <<>>
  /\ \E p \in EmptyPoints : is_ko_violation(G, p).ret

\* C18: an accepted move, placement or pass, appends that one move to the
\* record and passes the move to the other colour; every other step, a
\* rejected move among them, leaves the record and the side to move alone.
\* So the record only grows at its end, and Black is to move exactly when
\* its length is even.
C18_RecordAndTurn ==
  [][/\ IF call'.op = "make_move" /\ ret'
          THEN /\ move_history' = Append(move_history, call'.arg)
               /\ current_player' = Opponent(current_player)
          ELSE /\ move_history' = move_history
               /\ current_player' = current_player
     /\ current_player' = BLACK <=> Len(move_history') % 2 = 0]_vars

\* a move has just been accepted that makes the record odd in length, with
\* a pass and a placement in it, and White is to move
C18_Witness ==
  /\ call.op = "make_move" /\ ret
  /\ move_history # <<>> /\ move_history[Len(move_history)] = call.arg
  /\ Len(move_history) % 2 = 1
  /\ current_player = WHITE
  /\ Pass \in Range(move_history)
  /\ Range(move_history) \cap OnBoard(size) # {}

\* C19: last_move is the final entry of the record: after an accepted
\* move, a pass included, last_move is that move.
C19_LastMoveIsLastEntry ==
  /\ move_history # <<>> => last_move = move_history[Len(move_history)]
  /\ (call.op = "make_move" /\ ret) => last_move = call.arg

\* C20: get_group_cached returns for every point the chain of that point on
\* the current grid (nothing for an empty point), on the grid of the state
\* and on the grid with the stone a validation tries at any empty point,
\* whatever the cache holds; every entry of the cache is the chain of its
\* point on the grid of its key, one entry for a key; and the cache is empty
\* right after an accepted stone placement.
C20_CacheCoherence ==
  /\ \A r \in Points(size) :
       get_group_cached(G, r).ret = ChainOrNone(size, board, r)
  /\ \A p \in EmptyPoints : \A r \in Points(size) :
       get_group_cached(Placed(G, p), r).ret = ChainOrNone(size, Placed(G, p).board, r)
  /\ \A e \in group_cache :
       /\ e.group = ChainOrNone(size, e.board, e.point)
       /\ CacheHits(group_cache, e.point, e.board) = {e}
  /\ (call.op = "make_move" /\ call.arg \in OnBoard(size) /\ ret) => group_cache = {}

\* is_valid_move has just tried a stone at a point, and the cache holds a
\* chain of two or more stones under the grid with that stone, so that
\* get_group_cached finds it when the point is tried again
C20_Witness ==
  /\ call.op = "is_valid_move" /\ call.arg \in OnBoard(size)
  /\ board[call.arg.pt] = EMPTY
  /\ \E e \in group_cache :
       /\ e.board = Placed(G, call.arg.pt).board
       /\ e.board # board
       /\ Cardinality(e.group) >= 2
       /\ get_group_cached(Placed(G, call.arg.pt), e.point).ret = e.group

\* C21: in vs-computer mode a click or a pass of the user is applied to the
\* game only when no reply of the AI is scheduled and the user's colour is to
\* move, and ai_make_move makes its move only when the AI's colour is to
\* move; so every stone placed from on_click has the user's colour.
C21_SidesAlternate ==
  [][(vs_computer /\ move_history' # move_history) =>
       /\ call'.op \in {"on_click", "pass_move"} =>
            /\ timers = 0
            /\ current_player = Opponent(ai_player)
       /\ call'.op = "ai_make_move" => current_player = ai_player]_vars

====
